---- MODULE Spec2Model ----
(***************************************************************************)
(* Model of rekognition_image_detection.py: the RekognitionImage wrapper   *)
(* (__init__, from_bucket, detect_labels) and the usage_demo driver.       *)
(*                                                                         *)
(* The Boto3 Rekognition client and the S3 listing are the environment:    *)
(* the client answers a request with a response or raises, the listing is  *)
(* a finite sequence of object summaries fixed when the run starts.        *)
(*                                                                         *)
(* Two programs are specified over the same detect_labels steps:           *)
(*   Spec       the usage_demo driver (FairSpec adds its progress),        *)
(*   DetectSpec a caller that builds one RekognitionImage and calls        *)
(*              detect_labels(N) on it with a stub client.                 *)
(***************************************************************************)
EXTENDS Integers, Sequences, FiniteSets, TLC

\* ---------------------------------------------------------------- bounds
MaxObjects == 2
MaxResp == 2
MaxN == 2
MaxCalls == 1

\* ------------------------------------------------------ program constants
bucket_name == "unr-cs442"
DemoMaxLabels == 100
RuleWidth == 88

\* ------------------------------------------------------------ input sets
Keys == {"a.jpg", "b.jpg", "c.jpg"}
Buckets == {bucket_name, "other-bucket"}
ImageBytes == {"<jpeg bytes>"}
Names == {"Car", "Tree"}
Confidences == {"99.1"}
rekognition_client == "rekognition"

\* Python's None as printed and compared; an unset optional is <<>>,
\* a set one is <<value>>.
PyNone == "None"
Unset == <<>>
Some(x) == <<x>>

SeqsUpTo(S, n) == UNION {[1..k -> S] : k \in 0..n}

\* Label records of a response: dicts that carry 'Confidence' and usually
\* 'Name' (a record without 'Name' exercises dict.get's default).
LabelRecords == [Name : Names, Confidence : Confidences] \cup [Confidence : Confidences]
Responses == {[Labels |-> s] : s \in SeqsUpTo(LabelRecords, MaxResp)}

\* Exceptions the client can raise: ClientError (with its error code) and
\* an exception that is not a ClientError.
Failures == {[type |-> "ClientError", code |-> "ThrottlingException"], [type |-> "ClientError", code |-> "AccessDeniedException"], [type |-> "EndpointConnectionError", code |-> ""]}

S3Objects == [bucket_name : Buckets, key : Keys]
ImageData == {[Bytes |-> b] : b \in ImageBytes}

\* Listings of the bucket: object summaries with pairwise distinct keys.
KeyListings == {ks \in SeqsUpTo(Keys, MaxObjects) : \A a, b \in 1..Len(ks) : ks[a] = ks[b] => a = b}
Listings == {[j \in 1..Len(ks) |-> [bucket_name |-> bucket_name, key |-> ks[j]]] : ks \in KeyListings}

\* ------------------------------------------------------------ pure parts
\* dict.get(key): the value, or None when the key is absent.
Get(d, key) == IF key \in DOMAIN d THEN d[key] ELSE PyNone

\* RekognitionImage.__init__
RekognitionImage(image, image_name, client) == [image |-> image, image_name |-> image_name, rekognition_client |-> client]

from_bucket_name_swapped(s3_object, client) == RekognitionImage([S3Object |-> [Bucket |-> s3_object.key, Name |-> s3_object.bucket_name]], s3_object.bucket_name, client)

\* RekognitionImage.from_bucket
from_bucket(s3_object, client) ==
    LET image == [S3Object |-> [Bucket |-> s3_object.bucket_name, Name |-> s3_object.key]]
    IN RekognitionImage(image, s3_object.key, client)

\* boto3.resource('s3').Object(bucket_name, key)
S3Object(bucket, key) == [bucket_name |-> bucket, key |-> key]

\* print(a, b): the two values separated by one space.
PrintPair(a, b) == a \o " " \o b

RECURSIVE Repeat(_, _)
Repeat(s, n) == IF n = 0 THEN "" ELSE s \o Repeat(s, n - 1)

Rule == Repeat("-", RuleWidth)
WelcomeLine == "Welcome to the Amazon Rekognition image detection demo!"
ThanksLine == "Thanks for watching!"
DetectingLine(image_name) == "Detecting labels in " \o image_name \o "..."
FoundLine(n) == "Found " \o ToString(n) \o " labels."

except_ClientError_wrapped(e) == IF e.type = "ClientError" THEN [type |-> "RuntimeError", code |-> e.code] ELSE e

\* `except ClientError: raise`: a ClientError is caught and re-raised as it
\* is; any other exception is not caught and propagates as it is.
except_ClientError(e) == IF e.type = "ClientError" THEN e ELSE e

\* ----------------------------------------------------------------- state
VARIABLES pc, listing, processed, street_scene_image, s3_object, max_labels, calls, requests, responses, response, labels, pos, raised, client_raised, result, stdout

vars == <<pc, listing, processed, street_scene_image, s3_object, max_labels, calls, requests, responses, response, labels, pos, raised, client_raised, result, stdout>>

\* pc           position of the single thread of control
\* listing      my_bucket.objects.all(), processed = objects taken by the loop
\* street_scene_image, s3_object   the image in use and the S3 object it was built from
\* max_labels, response, labels, pos   the frame of detect_labels
\* calls        the max_labels argument of every detect_labels call so far
\* requests     every request received by the client
\* responses    every response returned by the client
\* raised       the exception propagating, client_raised the one the client raised
\* result       the list returned by detect_labels
\* stdout       the lines printed

driver_vars == <<listing, processed>>
image_vars == <<street_scene_image, s3_object>>
frame_vars == <<max_labels, response, labels, pos>>

\* ------------------------------------------------------- detect_labels
\* Entry of detect_labels(max_labels) with a fresh frame.
Invoke(n) ==
    /\ max_labels' = n
    /\ calls' = Append(calls, n)
    /\ response' = Unset
    /\ labels' = <<>>
    /\ pos' = 0
    /\ pc' = "detect"

detect_labels_request_twice ==
    /\ pc = "detect"
    /\ requests' = requests \o <<[Image |-> street_scene_image[1].image, MaxLabels |-> max_labels], [Image |-> street_scene_image[1].image, MaxLabels |-> max_labels]>>
    /\ pc' = "awaiting"
    /\ UNCHANGED <<driver_vars, image_vars, frame_vars, calls, responses, raised, client_raised, result, stdout>>

\* self.rekognition_client.detect_labels(Image=self.image, MaxLabels=max_labels)
detect_labels_request ==
    /\ pc = "detect"
    /\ requests' = Append(requests, [Image |-> street_scene_image[1].image, MaxLabels |-> max_labels])
    /\ pc' = "awaiting"
    /\ UNCHANGED <<driver_vars, image_vars, frame_vars, calls, responses, raised, client_raised, result, stdout>>

\* The client returns a response; labels = [].
client_respond(r) ==
    /\ pc = "awaiting"
    /\ response' = Some(r)
    /\ responses' = Append(responses, r)
    /\ labels' = <<>>
    /\ pos' = 0
    /\ pc' = "loop"
    /\ UNCHANGED <<driver_vars, image_vars, max_labels, calls, requests, raised, client_raised, result, stdout>>

\* The client raises.
client_raise(e) ==
    /\ pc = "awaiting"
    /\ raised' = Some(e)
    /\ client_raised' = Some(e)
    /\ pc' = "except"
    /\ UNCHANGED <<driver_vars, image_vars, frame_vars, calls, requests, responses, result, stdout>>

detect_labels_loop_skip_unnamed ==
    /\ pc = "loop"
    /\ pos < Len(response[1].Labels)
    /\ LET label == response[1].Labels[pos + 1]
       IN IF "Name" \in DOMAIN label
          THEN /\ stdout' = Append(stdout, PrintPair(Get(label, "Name"), Get(label, "Confidence")))
               /\ labels' = Append(labels, Get(label, "Name"))
          ELSE UNCHANGED <<stdout, labels>>
    /\ pos' = pos + 1
    /\ UNCHANGED <<pc, driver_vars, image_vars, max_labels, response, calls, requests, responses, raised, client_raised, result>>

detect_labels_loop_print_named_only ==
    /\ pc = "loop"
    /\ pos < Len(response[1].Labels)
    /\ LET label == response[1].Labels[pos + 1]
       IN /\ stdout' = IF "Name" \in DOMAIN label THEN Append(stdout, PrintPair(Get(label, "Name"), Get(label, "Confidence"))) ELSE stdout
          /\ labels' = Append(labels, Get(label, "Name"))
    /\ pos' = pos + 1
    /\ UNCHANGED <<pc, driver_vars, image_vars, max_labels, response, calls, requests, responses, raised, client_raised, result>>

\* One iteration of `for label in response['Labels']`: print, then append.
detect_labels_loop ==
    /\ pc = "loop"
    /\ pos < Len(response[1].Labels)
    /\ LET label == response[1].Labels[pos + 1]
       IN /\ stdout' = Append(stdout, PrintPair(Get(label, "Name"), Get(label, "Confidence")))
          /\ labels' = Append(labels, Get(label, "Name"))
    /\ pos' = pos + 1
    /\ UNCHANGED <<pc, driver_vars, image_vars, max_labels, response, calls, requests, responses, raised, client_raised, result>>

detect_labels_return_truncated ==
    /\ pc = "loop"
    /\ pos = Len(response[1].Labels)
    /\ result' = Some(SubSeq(labels, 1, IF Len(labels) > max_labels THEN max_labels ELSE Len(labels)))
    /\ pc' = "returned"
    /\ UNCHANGED <<driver_vars, image_vars, frame_vars, calls, requests, responses, raised, client_raised, stdout>>

\* The loop is exhausted without an exception: `else: return labels`.
detect_labels_return ==
    /\ pc = "loop"
    /\ pos = Len(response[1].Labels)
    /\ result' = Some(labels)
    /\ pc' = "returned"
    /\ UNCHANGED <<driver_vars, image_vars, frame_vars, calls, requests, responses, raised, client_raised, stdout>>

\* The exception leaves detect_labels through `except ClientError: raise`
\* or past it.
detect_labels_except ==
    /\ pc = "except"
    /\ raised' = Some(except_ClientError(raised[1]))
    /\ pc' = "raised"
    /\ UNCHANGED <<driver_vars, image_vars, frame_vars, calls, requests, responses, client_raised, result, stdout>>

detect_labels ==
    \/ detect_labels_request
    \/ \E r \in Responses : client_respond(r)
    \/ \E e \in Failures : client_raise(e)
    \/ detect_labels_loop
    \/ detect_labels_return
    \/ detect_labels_except

\* ----------------------------------------------------------- usage_demo
\* The banner; the clients and the bucket are obtained.
usage_demo_start ==
    /\ pc = "not_started"
    /\ stdout' = stdout \o <<Rule, WelcomeLine, Rule>>
    /\ pc' = "iterating"
    /\ UNCHANGED <<driver_vars, image_vars, frame_vars, calls, requests, responses, raised, client_raised, result>>

\* The loop takes the next object: from_bucket, the name line, the call.
usage_demo_next ==
    /\ pc = "iterating"
    /\ processed < Len(listing)
    /\ LET my_bucket_object == listing[processed + 1]
           street_object == S3Object(bucket_name, my_bucket_object.key)
           image == from_bucket(street_object, rekognition_client)
       IN /\ s3_object' = Some(street_object)
          /\ street_scene_image' = Some(image)
          /\ stdout' = Append(stdout, DetectingLine(image.image_name))
    /\ processed' = processed + 1
    /\ Invoke(DemoMaxLabels)
    /\ UNCHANGED <<listing, requests, responses, raised, client_raised, result>>

usage_demo_found_distinct ==
    /\ pc = "returned"
    /\ stdout' = Append(stdout, FoundLine(Cardinality({result[1][j] : j \in 1..Len(result[1])})))
    /\ pc' = "iterating"
    /\ UNCHANGED <<driver_vars, image_vars, frame_vars, calls, requests, responses, raised, client_raised, result>>

\* labels = ...detect_labels(100) has returned: the count line.
usage_demo_found ==
    /\ pc = "returned"
    /\ stdout' = Append(stdout, FoundLine(Len(result[1])))
    /\ pc' = "iterating"
    /\ UNCHANGED <<driver_vars, image_vars, frame_vars, calls, requests, responses, raised, client_raised, result>>

usage_demo_finish_early ==
    /\ pc = "iterating"
    /\ processed = Len(listing) \/ processed >= 1
    /\ stdout' = stdout \o <<ThanksLine, Rule>>
    /\ pc' = "done"
    /\ UNCHANGED <<driver_vars, image_vars, frame_vars, calls, requests, responses, raised, client_raised, result>>

usage_demo_finish_with_count ==
    /\ pc = "iterating"
    /\ processed = Len(listing)
    /\ stdout' = stdout \o <<FoundLine(Len(labels)), ThanksLine, Rule>>
    /\ pc' = "done"
    /\ UNCHANGED <<driver_vars, image_vars, frame_vars, calls, requests, responses, raised, client_raised, result>>

\* The listing is exhausted: the closing lines.
usage_demo_finish ==
    /\ pc = "iterating"
    /\ processed = Len(listing)
    /\ stdout' = stdout \o <<ThanksLine, Rule>>
    /\ pc' = "done"
    /\ UNCHANGED <<driver_vars, image_vars, frame_vars, calls, requests, responses, raised, client_raised, result>>

usage_demo_unwind_continue ==
    /\ pc = "raised"
    /\ pc' = "iterating"
    /\ UNCHANGED <<driver_vars, image_vars, frame_vars, calls, requests, responses, raised, client_raised, result, stdout>>

\* The exception is not handled in usage_demo: the run ends.
usage_demo_unwind ==
    /\ pc = "raised"
    /\ pc' = "failed"
    /\ UNCHANGED <<driver_vars, image_vars, frame_vars, calls, requests, responses, raised, client_raised, result, stdout>>

usage_demo ==
    \/ usage_demo_start
    \/ usage_demo_next
    \/ usage_demo_found
    \/ usage_demo_finish
    \/ usage_demo_unwind

Frame0 ==
    /\ processed = 0
    /\ street_scene_image = Unset
    /\ s3_object = Unset
    /\ max_labels = 0
    /\ calls = <<>>
    /\ requests = <<>>
    /\ responses = <<>>
    /\ response = Unset
    /\ labels = <<>>
    /\ pos = 0
    /\ raised = Unset
    /\ client_raised = Unset
    /\ result = Unset
    /\ stdout = <<>>

Init ==
    /\ pc = "not_started"
    /\ listing \in Listings
    /\ Frame0

Next == usage_demo \/ detect_labels

Spec == Init /\ [][Next]_vars

\* The program is sequential and every remote call blocks until the client
\* answers or raises: a step that can be taken is taken.
FairSpec == Spec /\ WF_vars(Next)

\* ------------------------------------------- a caller of detect_labels
\* cls(image, image_name, client) on image bytes.
caller_init(image, image_name) ==
    /\ pc = "new"
    /\ street_scene_image' = Some(RekognitionImage(image, image_name, rekognition_client))
    /\ pc' = "ready"
    /\ UNCHANGED <<driver_vars, s3_object, frame_vars, calls, requests, responses, raised, client_raised, result, stdout>>

\* RekognitionImage.from_bucket(s3_object, client)
caller_from_bucket(o) ==
    /\ pc = "new"
    /\ s3_object' = Some(o)
    /\ street_scene_image' = Some(from_bucket(o, rekognition_client))
    /\ pc' = "ready"
    /\ UNCHANGED <<driver_vars, frame_vars, calls, requests, responses, raised, client_raised, result, stdout>>

\* image.detect_labels(n)
caller_call(n) ==
    /\ pc = "ready"
    /\ Len(calls) < MaxCalls
    /\ Invoke(n)
    /\ raised' = Unset
    /\ client_raised' = Unset
    /\ result' = Unset
    /\ UNCHANGED <<driver_vars, image_vars, requests, responses, stdout>>

\* The caller takes the returned list or catches the exception.
caller_receive ==
    /\ pc \in {"returned", "raised"}
    /\ pc' = "ready"
    /\ UNCHANGED <<driver_vars, image_vars, frame_vars, calls, requests, responses, raised, client_raised, result, stdout>>

caller ==
    \/ \E image \in ImageData, image_name \in Keys : caller_init(image, image_name)
    \/ \E o \in S3Objects : caller_from_bucket(o)
    \/ \E n \in 1..MaxN : caller_call(n)
    \/ caller_receive

DetectInit ==
    /\ pc = "new"
    /\ listing = <<>>
    /\ Frame0

DetectNext == caller \/ detect_labels

DetectSpec == DetectInit /\ [][DetectNext]_vars

\* ================================================================ claims
\* ------------------------------------------------ helpers of the claims
Front(s) == SubSeq(s, 1, Len(s) - 1)
Last(s) == s[Len(s)]

\* The lines one response makes detect_labels print, in response order.
LinesOf(r) == [j \in 1..Len(r.Labels) |-> PrintPair(Get(r.Labels[j], "Name"), Get(r.Labels[j], "Confidence"))]

RECURSIVE AllLines(_)
AllLines(rs) == IF rs = <<>> THEN <<>> ELSE AllLines(Front(rs)) \o LinesOf(Last(rs))

\* The per-image lines of the driver, as they appear on stdout.
NameLines == {DetectingLine(k) : k \in Keys}
CountLines == {FoundLine(n) : n \in 0..(MaxResp + 1)}
IsNameLine(l) == l \in NameLines
IsCountLine(l) == l \in CountLines
IsPerImageLine(l) == l \in NameLines \cup CountLines
PerImageOutput == SelectSeq(stdout, IsPerImageLine)
NameLineCount == Len(SelectSeq(stdout, IsNameLine))
CountLineCount == Len(SelectSeq(stdout, IsCountLine))

\* Images whose detection has come back to the driver loop.
Completed == IF pc \in {"not_started", "iterating", "done"} THEN processed ELSE processed - 1

\* ---------------------------------------------------------------- C1
\* C1 as stated: detect_labels(N) never returns more than N label names,
\* whatever the response carries.
C1_AtMostMaxLabels == pc = "returned" => Len(result[1]) <= max_labels

\* C1 amended: detect_labels(N) returns no more than N names whenever the
\* response carries at most N label records; a response carrying more than
\* N records is returned in full, one name per record.
C1_BoundedByResponse ==
    pc = "returned" =>
        /\ Len(response[1].Labels) <= max_labels => Len(result[1]) <= max_labels
        /\ Len(response[1].Labels) > max_labels => Len(result[1]) = Len(response[1].Labels)

C1_Witness == pc = "returned" /\ max_labels >= 1 /\ Len(response[1].Labels) = max_labels + 1 /\ Len(result[1]) = max_labels + 1

\* ---------------------------------------------------------------- C2
\* C2: the returned list is exactly the sequence of the 'Name' fields of
\* the response's label records: same order, same length, repeated names
\* kept, nothing filtered.
C2_NamesAsReturned ==
    pc = "returned" =>
        result = Some([j \in 1..Len(response[1].Labels) |-> IF "Name" \in DOMAIN response[1].Labels[j] THEN response[1].Labels[j].Name ELSE PyNone])

C2_Witness == pc = "returned" /\ result \in {Some(<<"Tree", "Car">>), Some(<<"Tree", "Tree">>)} /\ Len(response[1].Labels) = 2

\* ---------------------------------------------------------------- C3
\* C3: once the client has raised in a call, detect_labels ends with that
\* very exception and returns no list.
C3_SameFailure ==
    client_raised # Unset =>
        /\ raised = client_raised
        /\ result = Unset
        /\ pc \in {"except", "raised", "ready"}

C3_Witness == pc = "raised" /\ raised = Some([type |-> "ClientError", code |-> "ThrottlingException"]) /\ client_raised = raised

\* ---------------------------------------------------------------- C7
\* C7: an image built by from_bucket from (bucket b, key k) has display
\* name k and image data {S3Object: {Bucket: b, Name: k}}, not bytes, and
\* before any detect_labels call the client has received no request.
C7_FromBucket ==
    /\ s3_object # Unset =>
        /\ street_scene_image[1].image_name = s3_object[1].key
        /\ street_scene_image[1].image = [S3Object |-> [Bucket |-> s3_object[1].bucket_name, Name |-> s3_object[1].key]]
        /\ "Bytes" \notin DOMAIN street_scene_image[1].image
    /\ calls = <<>> => requests = <<>>

C7_Witness == pc = "ready" /\ calls = <<>> /\ s3_object = Some([bucket_name |-> "other-bucket", key |-> "b.jpg"]) /\ street_scene_image[1].image_name = "b.jpg"

\* ---------------------------------------------------------------- C8
\* C8: every detect_labels call sends exactly one request, carrying the
\* image's own data and the call's max_labels, whether it succeeds or
\* fails.
C8_OneRequestPerCall ==
    /\ Len(requests) = (IF pc = "detect" THEN Len(calls) - 1 ELSE Len(calls))
    /\ \A j \in 1..Len(requests) : requests[j] = [Image |-> street_scene_image[1].image, MaxLabels |-> calls[j]]

C8_Witness == pc = "raised" /\ Len(calls) = 1 /\ Len(requests) = 1 /\ requests[1].MaxLabels = max_labels

\* ---------------------------------------------------------------- C9
\* C9: in a successful call one "name confidence" line is printed per label
\* record, in response order, all of them before the return; as many lines
\* as names returned; nothing is printed outside the loop.
C9_LinesBeforeReturn ==
    /\ [](pc = "loop" => stdout = AllLines(Front(responses)) \o SubSeq(LinesOf(Last(responses)), 1, pos))
    /\ [](pc = "returned" =>
            /\ stdout = AllLines(Front(responses)) \o LinesOf(response[1])
            /\ Len(stdout) - Len(AllLines(Front(responses))) = Len(result[1]))
    /\ [][pc # "loop" => stdout' = stdout]_vars

C9_Witness == pc = "returned" /\ Len(result[1]) = 2 /\ stdout = <<"None 99.1", "Car 99.1">>

\* ---------------------------------------------------------------- C4
\* C4: the driver takes the objects in listing order, each once, with
\* max_labels = 100; its per-image lines are 'Detecting labels in o_i...'
\* then 'Found k_i labels.' for i = 1, 2, ...; the name line of image i is
\* printed before the request for image i and the count line after it.
C4_PerImageOrder ==
    /\ PerImageOutput = [p \in 1..(processed + Completed) |-> IF p % 2 = 1 THEN DetectingLine(listing[(p + 1) \div 2].key) ELSE FoundLine(Len(responses[p \div 2].Labels))]
    /\ Len(calls) = processed
    /\ Len(requests) = (IF pc = "detect" THEN processed - 1 ELSE processed)
    /\ \A j \in 1..Len(calls) : calls[j] = 100
    /\ \A j \in 1..Len(requests) : requests[j] = [Image |-> [S3Object |-> [Bucket |-> "unr-cs442", Name |-> listing[j].key]], MaxLabels |-> 100]
    /\ NameLineCount = processed
    /\ CountLineCount = Completed

C4_Witness == pc = "done" /\ Len(listing) = 2 /\ Len(responses) = 2 /\ Len(responses[1].Labels) = 2 /\ Len(responses[2].Labels) = 0 /\ PerImageOutput[2] = "Found 2 labels." /\ PerImageOutput[4] = "Found 0 labels."

\* ---------------------------------------------------------------- C5
\* C5: when the detection call for the N-th image fails the driver halts:
\* no further request, no count line for image N or later, the output
\* printed so far is kept, and 'done' is never reached.
C5_HaltOnFailure ==
    /\ [](raised # Unset =>
            /\ pc \in {"except", "raised", "failed"}
            /\ Len(requests) = processed
            /\ CountLineCount = processed - 1)
    /\ [][raised # Unset => (requests' = requests /\ calls' = calls /\ processed' = processed /\ stdout' = stdout /\ raised' = raised)]_vars

C5_Witness == pc = "failed" /\ processed = 1 /\ Len(listing) = 2 /\ Len(requests) = 1 /\ CountLineCount = 0

\* ---------------------------------------------------------------- C6
\* C6: with an empty listing the driver makes no detection call, prints no
\* per-image line, and goes from 'iterating' straight to 'done'.
C6_EmptyListing ==
    /\ [](listing = <<>> =>
            /\ requests = <<>>
            /\ calls = <<>>
            /\ PerImageOutput = <<>>
            /\ pc \in {"not_started", "iterating", "done"})
    /\ [][(listing = <<>> /\ pc = "iterating") => pc' = "done"]_vars

C6_Witness == pc = "done" /\ listing = <<>> /\ stdout = <<Rule, WelcomeLine, Rule, ThanksLine, Rule>>

\* ---------------------------------------------------------------- C10
\* C10: unless a detection call raises, the driver eventually reaches
\* 'done'; 'done' is reached only when every listed object has been taken,
\* answered and reported.
C10_DoneAfterAll ==
    /\ [](pc = "done" =>
            /\ processed = Len(listing)
            /\ Len(responses) = Len(listing)
            /\ CountLineCount = Len(listing))
    /\ <>(pc = "done" \/ raised # Unset)

C10_Witness == pc = "done" /\ processed = 2 /\ raised = Unset

====
